---- MODULE Spec2Model ----
(***************************************************************************)
(* Model of the Forex Factory calendar scraper (src/app.py, src/news.py).  *)
(*                                                                         *)
(* A text is a sequence of strings.  The time-column text is modelled at   *)
(* character granularity, because TIME_PATTERN and "%I:%M%p" are regular   *)
(* expressions over characters; the date, currency and title texts are     *)
(* modelled as sequences of words and whitespace tokens.  An optional      *)
(* value (a DOM query that may return null, an attribute that may be       *)
(* absent) is a sequence of length 0 or 1.                                 *)
(***************************************************************************)
EXTENDS Integers, Sequences, FiniteSets, TLC

\* ------------------------------------------------------------------------
\* Bounds of the model
\* ------------------------------------------------------------------------
MaxRows == 3
MaxHeight == 2

\* ------------------------------------------------------------------------
\* Module-level configuration of the program
\* ------------------------------------------------------------------------
TARGET_CURRENCIES == {<<"USD">>, <<"EUR">>, <<"GBP">>, <<"AUD">>, <<"NZD">>}

\* pytz.timezone("Asia/Bangkok"): a fixed offset of +07:00, in minutes
FF_TIMEZONE == 420

\* window.scrollTo increment of the scroll loop
ScrollIncrement == 100

\* ------------------------------------------------------------------------
\* Characters and tokens
\* ------------------------------------------------------------------------
Digits == {"0", "1", "2", "3", "4", "5", "6", "7", "8", "9"}

DigitVal(c) ==
    CASE c = "0" -> 0 [] c = "1" -> 1 [] c = "2" -> 2 [] c = "3" -> 3
      [] c = "4" -> 4 [] c = "5" -> 5 [] c = "6" -> 6 [] c = "7" -> 7
      [] c = "8" -> 8 [] c = "9" -> 9

UpperLetters == {"A", "D", "L", "M", "P", "T", "Y"}
LowerLetters == {"a", "d", "e", "i", "l", "m", "n", "p", "t", "v", "y", "x"}

Whitespace == {" ", "\n", "\t"}

\* \w of the re module
IsWordChar(c) == c \in Digits \cup UpperLetters \cup LowerLetters \cup {"_"}

\* str.lower(), character by character
LowerChar(c) ==
    CASE c = "A" -> "a" [] c = "D" -> "d" [] c = "L" -> "l" [] c = "M" -> "m"
      [] c = "P" -> "p" [] c = "T" -> "t" [] c = "Y" -> "y"
      [] OTHER -> c

Lower(txt) == [i \in 1..Len(txt) |-> LowerChar(txt[i])]

\* str.replace("\n", " ") on a token text
ReplaceNewline(txt) == [i \in 1..Len(txt) |-> IF txt[i] = "\n" THEN " " ELSE txt[i]]

\* str.strip(): drop leading and trailing whitespace tokens
RECURSIVE LStrip(_)
LStrip(txt) ==
    IF txt = <<>> THEN <<>>
    ELSE IF Head(txt) \in Whitespace THEN LStrip(Tail(txt))
    ELSE txt

RECURSIVE RStrip(_)
RStrip(txt) ==
    IF txt = <<>> THEN <<>>
    ELSE IF txt[Len(txt)] \in Whitespace THEN RStrip(SubSeq(txt, 1, Len(txt) - 1))
    ELSE txt

Strip(txt) == RStrip(LStrip(txt))

\* ------------------------------------------------------------------------
\* datetime.strptime(f"{date_text_clean} {current_year}", "%a %b %d %Y")
\* ------------------------------------------------------------------------
WeekdayNames == {"Mon", "Tue", "Wed", "Thu", "Fri", "Sat", "Sun"}

MonthNames == <<"Jan", "Feb", "Mar", "Apr", "May", "Jun",
                "Jul", "Aug", "Sep", "Oct", "Nov", "Dec">>

\* the day-of-month tokens %d accepts, plain and zero-padded
DayTokens == <<"1", "2", "3", "4", "5", "6", "7", "8", "9", "10",
               "11", "12", "13", "14", "15", "16", "17", "18", "19", "20",
               "21", "22", "23", "24", "25", "26", "27", "28", "29", "30", "31">>

PaddedDayTokens == <<"01", "02", "03", "04", "05", "06", "07", "08", "09">>

IsDayToken(t) ==
    \/ \E i \in 1..Len(DayTokens) : DayTokens[i] = t
    \/ \E i \in 1..Len(PaddedDayTokens) : PaddedDayTokens[i] = t

DayTokenVal(t) ==
    IF \E i \in 1..Len(PaddedDayTokens) : PaddedDayTokens[i] = t
    THEN CHOOSE i \in 1..Len(PaddedDayTokens) : PaddedDayTokens[i] = t
    ELSE CHOOSE i \in 1..Len(DayTokens) : DayTokens[i] = t

IsMonthToken(t) == \E i \in 1..Len(MonthNames) : MonthNames[i] = t

MonthTokenVal(t) == CHOOSE i \in 1..Len(MonthNames) : MonthNames[i] = t

IsLeap(y) == (y % 4 = 0) /\ ((y % 100 # 0) \/ (y % 400 = 0))

DaysInMonth(y, m) ==
    IF m = 2 THEN (IF IsLeap(y) THEN 29 ELSE 28)
    ELSE IF m \in {4, 6, 9, 11} THEN 30
    ELSE 31

IsWs(t) == t \in Whitespace

WordsOf(txt) == SelectSeq(txt, LAMBDA t : ~IsWs(t))

\* the format's words are separated by \s+ : the text starts with a word and
\* no two words touch
WordsSeparated(txt) ==
    /\ txt # <<>>
    /\ ~IsWs(txt[1])
    /\ \A i \in 1..(Len(txt) - 1) : IsWs(txt[i]) \/ IsWs(txt[i + 1])

\* <<>> when strptime raises ValueError, else <<the naive date>>
ParseHeaderDate(date_text_clean, current_year) ==
    LET w == WordsOf(date_text_clean) IN
    IF /\ WordsSeparated(date_text_clean)
       /\ Len(w) = 3
       /\ w[1] \in WeekdayNames
       /\ IsMonthToken(w[2])
       /\ IsDayToken(w[3])
       /\ DayTokenVal(w[3]) <= DaysInMonth(current_year, MonthTokenVal(w[2]))
    THEN << [year |-> current_year,
             month |-> MonthTokenVal(w[2]),
             day |-> DayTokenVal(w[3])] >>
    ELSE <<>>

\* ------------------------------------------------------------------------
\* TIME_PATTERN = re.compile(r"\b(\d{1,2}:\d{2}\s*(?:am|pm))\b", re.I)
\* ------------------------------------------------------------------------
CharAt(txt, i) == IF i >= 1 /\ i <= Len(txt) THEN txt[i] ELSE ""

\* number of characters \s* takes from position j on
RECURSIVE WsRun(_, _)
WsRun(txt, j) ==
    IF j <= Len(txt) /\ IsWs(txt[j]) THEN 1 + WsRun(txt, j + 1) ELSE 0

\* number of characters \d{1,2} takes at position i so that ":" follows
HourDigitsAt(txt, i) ==
    IF CharAt(txt, i) \in Digits /\ CharAt(txt, i + 1) \in Digits
       /\ CharAt(txt, i + 2) = ":" THEN 2
    ELSE IF CharAt(txt, i) \in Digits /\ CharAt(txt, i + 1) = ":" THEN 1
    ELSE 0

\* index of the last character of a match that starts at i, or 0
TimeMatchEnd(txt, i) ==
    LET nd == HourDigitsAt(txt, i)
        c  == i + nd
        k  == WsRun(txt, c + 3)
        e  == c + 4 + k
    IN IF /\ nd > 0
          /\ (i = 1 \/ ~IsWordChar(txt[i - 1]))
          /\ CharAt(txt, c + 1) \in Digits
          /\ CharAt(txt, c + 2) \in Digits
          /\ CharAt(txt, c + 3 + k) \in {"a", "A", "p", "P"}
          /\ CharAt(txt, e) \in {"m", "M"}
          /\ (e = Len(txt) \/ ~IsWordChar(txt[e + 1]))
       THEN e
       ELSE 0

\* variant: a text without a clock time is read as midnight
TimePatternSearch_Midnight(txt) ==
    LET starts == {i \in 1..Len(txt) : TimeMatchEnd(txt, i) > 0} IN
    IF starts = {} THEN << <<"1", "2", ":", "0", "0", "a", "m">> >>
    ELSE LET i == CHOOSE s \in starts : \A o \in starts : s <= o
         IN << SubSeq(txt, i, TimeMatchEnd(txt, i)) >>

\* TIME_PATTERN.search(txt): <<>> for no match, else <<m.group(1)>> of the
\* leftmost match
TimePatternSearch(txt) ==
    LET starts == {i \in 1..Len(txt) : TimeMatchEnd(txt, i) > 0} IN
    IF starts = {} THEN <<>>
    ELSE LET i == CHOOSE s \in starts : \A o \in starts : s <= o
         IN << SubSeq(txt, i, TimeMatchEnd(txt, i)) >>

\* ------------------------------------------------------------------------
\* datetime.strptime(f"{date.strftime('%Y-%m-%d')} {time_str}",
\*                   "%Y-%m-%d %I:%M%p")
\* ------------------------------------------------------------------------
\* %I is 1[0-2]|0[1-9]|[1-9] : the length it takes at the head of s, or 0
HourFieldLen(s) ==
    IF CharAt(s, 1) = "1" /\ CharAt(s, 2) \in {"0", "1", "2"} THEN 2
    ELSE IF CharAt(s, 1) = "0" /\ CharAt(s, 2) \in (Digits \ {"0"}) THEN 2
    ELSE IF CharAt(s, 1) \in (Digits \ {"0"}) THEN 1
    ELSE 0

HourFieldVal(s) ==
    IF HourFieldLen(s) = 2 THEN 10 * DigitVal(s[1]) + DigitVal(s[2])
    ELSE DigitVal(s[1])

\* %M is [0-5]\d|\d : the length it takes at position j, or 0
MinuteFieldLen(s, j) ==
    IF CharAt(s, j) \in {"0", "1", "2", "3", "4", "5"} /\ CharAt(s, j + 1) \in Digits
    THEN 2
    ELSE IF CharAt(s, j) \in Digits THEN 1
    ELSE 0

MinuteFieldVal(s, j) ==
    IF MinuteFieldLen(s, j) = 2 THEN 10 * DigitVal(s[j]) + DigitVal(s[j + 1])
    ELSE DigitVal(s[j])

\* strftime("%Y-%m-%d") of the parsed date: its three numeric fields
FormatDate(date) == <<date.year, date.month, date.day>>

\* <<>> when strptime raises ValueError, else <<the naive local datetime>>
ParseLocalDateTime(ymd, time_str) ==
    LET hl == HourFieldLen(time_str)
        ml == MinuteFieldLen(time_str, hl + 2)
        p  == hl + 2 + ml
        h  == HourFieldVal(time_str)
        pm == CharAt(time_str, p) \in {"p", "P"}
    IN IF /\ hl > 0
          /\ CharAt(time_str, hl + 1) = ":"
          /\ ml > 0
          /\ CharAt(time_str, p) \in {"a", "A", "p", "P"}
          /\ CharAt(time_str, p + 1) \in {"m", "M"}
          /\ Len(time_str) = p + 1
       THEN << [year |-> ymd[1], month |-> ymd[2], day |-> ymd[3],
                hour |-> IF pm THEN (IF h = 12 THEN 12 ELSE h + 12)
                         ELSE (IF h = 12 THEN 0 ELSE h),
                minute |-> MinuteFieldVal(time_str, hl + 2)] >>
       ELSE <<>>

\* ------------------------------------------------------------------------
\* FF_TIMEZONE.localize(dt_local).astimezone(pytz.UTC).isoformat()
\* ------------------------------------------------------------------------
PrevDay(d) ==
    IF d.day > 1 THEN [d EXCEPT !.day = d.day - 1]
    ELSE IF d.month > 1
         THEN [d EXCEPT !.month = d.month - 1,
                        !.day = DaysInMonth(d.year, d.month - 1)]
    ELSE [d EXCEPT !.year = d.year - 1, !.month = 12, !.day = 31]

\* variant: the clock is shifted and the calendar day is kept
ToUtc_NoRollover(dt_local) ==
    LET mins == (dt_local.hour * 60 + dt_local.minute - FF_TIMEZONE + 1440) % 1440 IN
    [dt_local EXCEPT !.hour = mins \div 60, !.minute = mins % 60]

\* the UTC wall clock of a naive datetime localized at +07:00
ToUtc(dt_local) ==
    LET mins == dt_local.hour * 60 + dt_local.minute - FF_TIMEZONE IN
    IF mins >= 0
    THEN [dt_local EXCEPT !.hour = mins \div 60, !.minute = mins % 60]
    ELSE [PrevDay(dt_local) EXCEPT !.hour = (mins + 1440) \div 60,
                                   !.minute = (mins + 1440) % 60]

\* isoformat() of an aware UTC datetime: the fields and the "+00:00" suffix
IsoFormat(dt_utc) ==
    [year |-> dt_utc.year, month |-> dt_utc.month, day |-> dt_utc.day,
     hour |-> dt_utc.hour, minute |-> dt_utc.minute, second |-> 0,
     offset |-> "+00:00"]

\* ------------------------------------------------------------------------
\* The page: its elements in document order.  An element is
\*   first    : TRUE when it has no previousElementSibling (it opens a new
\*              parent, e.g. a new table body)
\*   row      : TRUE when it matches "tr.calendar__row"
\*   id       : the data-event-id attribute, optional
\*   date     : innerText of its '.calendar__date .date', optional
\*   time     : innerText of its '.calendar__cell.calendar__time span', optional
\*   currency : inner_text of its ".calendar__currency span", optional
\*   impact   : title attribute of the span of its ".calendar__impact", optional
\*   title    : inner_text of its ".calendar__event-title", optional
\* ------------------------------------------------------------------------
HIGH_IMPACT_TITLE == "High Impact Expected"

\* variant: the element before in document order, whatever its parent
PreviousElementSibling_IgnoreLevel(doc, i) == i - 1

\* el.previousElementSibling, as a position in the document (0 for null)
PreviousElementSibling(doc, i) == IF doc[i].first THEN 0 ELSE i - 1

\* the JavaScript walk of row.evaluate for the date header:
\*   el = row; while (el) { d = el.querySelector(..); if (d) return d.innerText;
\*                          el = el.previousElementSibling; } return null;
\* variant: the walk does not stop at the first match and returns the
\* match farthest from the row
RECURSIVE ResolveDateText_Earliest(_, _)
ResolveDateText_Earliest(doc, i) ==
    IF i = 0 THEN <<>>
    ELSE LET up == ResolveDateText_Earliest(doc, PreviousElementSibling(doc, i))
         IN IF up # <<>> THEN up ELSE doc[i].date

RECURSIVE ResolveDateText(_, _)
ResolveDateText(doc, i) ==
    IF i = 0 THEN <<>>
    ELSE IF doc[i].date # <<>> THEN doc[i].date
    ELSE ResolveDateText(doc, PreviousElementSibling(doc, i))

\* the same walk for the time column
RECURSIVE ResolveTimeText(_, _)
ResolveTimeText(doc, i) ==
    IF i = 0 THEN <<>>
    ELSE IF doc[i].time # <<>> THEN doc[i].time
    ELSE ResolveTimeText(doc, PreviousElementSibling(doc, i))

\* ------------------------------------------------------------------------
\* events: the dict of scrape_forexfactory, in insertion order, as a
\* sequence of [key, value]
\* ------------------------------------------------------------------------
Keys(evs) == {evs[i].key : i \in 1..Len(evs)}

\* variant: only the key stored last is recognised
AlreadyStored_LastOnly(evs, key) == evs # <<>> /\ evs[Len(evs)].key = key

\* variant: the dict is never consulted
AlreadyStored_Never(evs, key) == FALSE

\* event_id in events
AlreadyStored(evs, key) == key \in Keys(evs)

\* not event_id
IdMissing(id) == id = <<>> \/ id[1] = ""

\* events[key] = value : replaces the value in place when the key is
\* present, appends the key otherwise
DictSet(evs, key, value) ==
    IF key \in Keys(evs)
    THEN [i \in 1..Len(evs) |->
            IF evs[i].key = key THEN [key |-> key, value |-> value] ELSE evs[i]]
    ELSE Append(evs, [key |-> key, value |-> value])

\* variant: the values are sorted by event time
ListValues_ByTime(evs) ==
    SortSeq([i \in 1..Len(evs) |-> evs[i].value],
            LAMBDA a, b :
                LET ka == ((a.event_time_utc.year * 12 + a.event_time_utc.month) * 31
                           + a.event_time_utc.day) * 1440
                          + a.event_time_utc.hour * 60 + a.event_time_utc.minute
                    kb == ((b.event_time_utc.year * 12 + b.event_time_utc.month) * 31
                           + b.event_time_utc.day) * 1440
                          + b.event_time_utc.hour * 60 + b.event_time_utc.minute
                IN ka < kb)

\* list(events.values())
ListValues(evs) == [i \in 1..Len(evs) |-> evs[i].value]

\* variant: every currency passes
InTargetCurrencies_Any(currency) == TRUE

\* currency not in TARGET_CURRENCIES, negated
InTargetCurrencies(currency) == currency \in TARGET_CURRENCIES

\* variant: any span of the impact cell passes
HasHighImpactSpan_AnySpan(el) == el.impact # <<>>

\* row.query_selector('.calendar__impact span[title="High Impact Expected"]')
HasHighImpactSpan(el) == el.impact # <<>> /\ el.impact[1] = HIGH_IMPACT_TITLE

\* event_cell.inner_text().strip() if event_cell else ""
EventTitle(el) == IF el.title # <<>> THEN Strip(el.title[1]) ELSE <<>>

\* ------------------------------------------------------------------------
\* One iteration of "for row in rows": what the body computes for the
\* element at position pos, and the reason it stops at.
\* ------------------------------------------------------------------------
NoOutcome ==
    [reason |-> "none", pos |-> 0, step |-> 0, event_id |-> <<>>,
     date_text |-> <<>>,
     date |-> <<>>, time_text |-> <<>>, time_str |-> <<>>,
     currency |-> <<>>, event |-> <<>>, dt_local |-> <<>>, value |-> <<>>]

RowOutcome(doc, pos, current_year, evs) ==
    LET el   == doc[pos]
        o0   == [NoOutcome EXCEPT !.pos = pos, !.event_id = el.id]
        dtxt == ResolveDateText(doc, pos)
        date == IF dtxt = <<>> THEN <<>>
                ELSE ParseHeaderDate(ReplaceNewline(dtxt[1]), current_year)
        o1   == [o0 EXCEPT !.date_text = dtxt, !.date = date]
        ttxt == ResolveTimeText(doc, pos)
        m    == IF ttxt = <<>> THEN <<>> ELSE TimePatternSearch(Lower(ttxt[1]))
        o2   == [o1 EXCEPT !.time_text = ttxt, !.time_str = m]
        cur  == IF el.currency = <<>> THEN <<>> ELSE <<Strip(el.currency[1])>>
        o3   == [o2 EXCEPT !.currency = cur]
        loc  == IF date = <<>> \/ m = <<>> THEN <<>>
                ELSE ParseLocalDateTime(FormatDate(date[1]), m[1])
        o4   == [o3 EXCEPT !.event = <<EventTitle(el)>>, !.dt_local = loc]
    IN  IF IdMissing(el.id) THEN [o0 EXCEPT !.reason = "no_id"]
        ELSE IF AlreadyStored(evs, el.id[1]) THEN [o0 EXCEPT !.reason = "stored"]
        ELSE IF dtxt = <<>> \/ dtxt[1] = <<>>
             THEN [o0 EXCEPT !.reason = "no_date", !.date_text = dtxt]
        ELSE IF date = <<>> THEN [o1 EXCEPT !.reason = "bad_date"]
        ELSE IF ttxt = <<>> \/ ttxt[1] = <<>>
             THEN [o1 EXCEPT !.reason = "no_time", !.time_text = ttxt]
        ELSE IF m = <<>> THEN [o2 EXCEPT !.reason = "no_match"]
        ELSE IF cur = <<>> THEN [o2 EXCEPT !.reason = "no_currency"]
        ELSE IF ~InTargetCurrencies(cur[1]) THEN [o3 EXCEPT !.reason = "currency"]
        ELSE IF ~HasHighImpactSpan(el) THEN [o3 EXCEPT !.reason = "impact"]
        ELSE IF loc = <<>> THEN [o4 EXCEPT !.reason = "bad_clock"]
        ELSE [o4 EXCEPT !.reason = "emit",
                        !.value = << [event_time_utc |-> IsoFormat(ToUtc(loc[1])),
                                      currency |-> cur[1],
                                      impact |-> "HIGH",
                                      event |-> EventTitle(el)] >>]

\* ------------------------------------------------------------------------
\* State
\* ------------------------------------------------------------------------
VARIABLES
    doc,            \* the upstream page: its elements in document order
    utc_year,       \* datetime.utcnow().year
    mounted,        \* how many elements of doc are attached to the document
    store,          \* JSON_FILE: [state, data]
    trigger,        \* who called: a route, the cron job, a __main__ block
    pc,             \* position of the current call
    browser,        \* the rendering session: "none", "open", "closed"
    events,         \* local dict of scrape_forexfactory
    total_height,   \* local of scrape_forexfactory
    scroll_y,       \* local of scrape_forexfactory
    rows,           \* result of query_selector_all: positions in doc
    rowIdx,         \* position of "for row in rows"
    result,         \* what scrape_forexfactory returned
    response,       \* what the caller's caller was told: [to, status]
    raised,         \* history: an exception was raised inside this run
    prevStore,      \* history: the store when this run was triggered
    enc,            \* history: the outcome of every row iteration of this run
    pc2,            \* position of a call made by a second server thread
    trigger2,       \* the route that second thread serves
    result2,        \* what scrape_forexfactory returned to the second thread
    readerSaw       \* what the last reader of JSON_FILE found: [state, data]

vars == <<doc, utc_year, mounted, store, trigger, pc, browser, events,
          total_height, scroll_y, rows, rowIdx, result, response, raised,
          prevStore, enc, pc2, trigger2, result2, readerSaw>>

env == <<doc, utc_year>>
conc == <<pc2, trigger2, result2, readerSaw>>
locals == <<events, total_height, scroll_y, rows, rowIdx>>

AbsentStore == [state |-> "absent", data |-> <<>>]
TruncatedStore == [state |-> "empty", data |-> <<>>]
JsonStore(data) == [state |-> "json", data |-> data]

NoResponse == [to |-> "none", status |-> "none"]

Heights == {ScrollIncrement * k : k \in 0..MaxHeight}

\* ------------------------------------------------------------------------
\* scrape_forexfactory
\* ------------------------------------------------------------------------
\* variant: the dict is not created anew
Launch_KeepEvents ==
    /\ pc = "start"
    /\ browser' = "open"
    /\ pc' = "goto"
    /\ UNCHANGED <<env, conc, mounted, store, trigger, events, total_height,
                   scroll_y, rows, rowIdx, result, response, raised, prevStore,
                   enc>>

\* events = {}; sync_playwright(); chromium.launch(); browser.new_page()
Launch ==
    /\ pc = "start"
    /\ events' = <<>>
    /\ browser' = "open"
    /\ pc' = "goto"
    /\ UNCHANGED <<env, conc, mounted, store, trigger, total_height, scroll_y, rows,
                   rowIdx, result, response, raised, prevStore, enc>>

\* page.goto(URL); wait; current_year; scrollTo(0, 0); wait;
\* total_height = document.body.scrollHeight; scroll_y = 0
Navigate ==
    /\ pc = "goto"
    /\ \E m \in 0..Len(doc) : mounted' = m
    /\ \E h \in Heights : total_height' = h
    /\ scroll_y' = 0
    /\ pc' = "loop"
    /\ UNCHANGED <<env, conc, store, trigger, browser, events, rows, rowIdx, result,
                   response, raised, prevStore, enc>>

\* the positions of the attached elements that match "tr.calendar__row",
\* in document order
QuerySelectorAll(d, m) == SelectSeq([i \in 1..m |-> i], LAMBDA i : d[i].row)

\* variant: the loop test is scroll_y <= total_height
ScrollStep_Le ==
    /\ pc = "loop"
    /\ scroll_y <= total_height
    /\ \E m \in mounted..Len(doc) :
          /\ mounted' = m
          /\ rows' = QuerySelectorAll(doc, m)
    /\ rowIdx' = 1
    /\ pc' = "rows"
    /\ UNCHANGED <<env, conc, store, trigger, browser, events, total_height, scroll_y,
                   result, response, raised, prevStore, enc>>

\* while scroll_y < total_height: scrollTo(0, scroll_y); wait(120);
\* rows = page.query_selector_all("tr.calendar__row")
ScrollStep ==
    /\ pc = "loop"
    /\ scroll_y < total_height
    /\ \E m \in mounted..Len(doc) :
          /\ mounted' = m
          /\ rows' = QuerySelectorAll(doc, m)
    /\ rowIdx' = 1
    /\ pc' = "rows"
    /\ UNCHANGED <<env, conc, store, trigger, browser, events, total_height, scroll_y,
                   result, response, raised, prevStore, enc>>

\* one iteration of "for row in rows"
ProcessRow ==
    /\ pc = "rows"
    /\ rowIdx <= Len(rows)
    /\ LET o == RowOutcome(doc, rows[rowIdx], utc_year, events) IN
          /\ events' = IF o.reason = "emit"
                       THEN DictSet(events, o.event_id[1], o.value[1])
                       ELSE events
          /\ enc' = Append(enc, [o EXCEPT !.step = scroll_y])
    /\ rowIdx' = rowIdx + 1
    /\ UNCHANGED <<env, conc, mounted, store, trigger, pc, browser, total_height,
                   scroll_y, rows, result, response, raised, prevStore>>

\* scroll_y += 100; total_height = document.body.scrollHeight
EndStep ==
    /\ pc = "rows"
    /\ rowIdx > Len(rows)
    /\ scroll_y' = scroll_y + ScrollIncrement
    /\ \E h \in Heights : h >= total_height /\ total_height' = h
    /\ pc' = "loop"
    /\ UNCHANGED <<env, conc, mounted, store, trigger, browser, events, rows, rowIdx,
                   result, response, raised, prevStore, enc>>

\* loop exit; browser.close(); return list(events.values())
LoopExit ==
    /\ pc = "loop"
    /\ scroll_y >= total_height
    /\ browser' = "closed"
    /\ result' = ListValues(events)
    /\ pc' = "returned"
    /\ UNCHANGED <<env, conc, mounted, store, trigger, events, total_height, scroll_y,
                   rows, rowIdx, response, raised, prevStore, enc>>

InRun == pc \in {"start", "goto", "loop", "rows"}

\* the locals of the with block die when an exception leaves it
Unwind ==
    /\ events' = <<>>
    /\ total_height' = 0
    /\ scroll_y' = 0
    /\ rows' = <<>>
    /\ rowIdx' = 1
    /\ mounted' = 0
    /\ enc' = <<>>

\* variant: the exception is caught inside the with block and the session
\* stays as it was
RaiseCaught_Leak ==
    /\ InRun
    /\ trigger # "news_main"
    /\ raised' = TRUE
    /\ result' = <<>>
    /\ pc' = "returned"
    /\ Unwind
    /\ UNCHANGED <<env, conc, store, trigger, browser, response, prevStore>>

\* app.py: an exception of launch, goto, evaluate, query_selector_all or a
\* row read leaves the with block and is caught by "except Exception":
\* logger.error; return []
RaiseCaught ==
    /\ InRun
    /\ trigger # "news_main"
    /\ raised' = TRUE
    /\ browser' = IF browser = "open" THEN "closed" ELSE browser
    /\ result' = <<>>
    /\ pc' = "returned"
    /\ Unwind
    /\ UNCHANGED <<env, conc, store, trigger, response, prevStore>>

\* news.py: the same exception leaves the with block and the function, and
\* ends the script with a traceback
RaiseUncaught ==
    /\ InRun
    /\ trigger = "news_main"
    /\ raised' = TRUE
    /\ browser' = IF browser = "open" THEN "closed" ELSE browser
    /\ pc' = "crashed"
    /\ Unwind
    /\ UNCHANGED <<env, conc, store, trigger, result, response, prevStore>>

NextScrape ==
    \/ Launch
    \/ Navigate
    \/ ScrollStep
    \/ ProcessRow
    \/ EndStep
    \/ LoopExit
    \/ RaiseCaught
    \/ RaiseUncaught

\* ------------------------------------------------------------------------
\* update_json_file and its callers
\* ------------------------------------------------------------------------
Triggers == {"cron", "scrape_now", "get_news", "download_json", "startup",
             "news_main"}

\* the cron job, GET /scrape-now, GET /api/news and GET /weekly_ecocar.json
\* and the __main__ block of app.py when JSON_FILE does not exist, and the
\* __main__ block of news.py
Trigger(t) ==
    /\ pc = "idle"
    /\ t \in {"get_news", "download_json", "startup"} => store.state = "absent"
    /\ trigger' = t
    /\ pc' = "start"
    /\ raised' = FALSE
    /\ prevStore' = store
    /\ response' = NoResponse
    /\ UNCHANGED <<env, conc, mounted, store, browser, locals, result, enc>>

\* with open(JSON_FILE, 'w') as f: the file is created or truncated
WriteOpen ==
    /\ pc = "returned"
    /\ store' = TruncatedStore
    /\ pc' = "dump"
    /\ UNCHANGED <<env, conc, mounted, trigger, browser, locals, result, response,
                   raised, prevStore, enc>>

\* json.dump(data, f, indent=2, ensure_ascii=False)
WriteDump ==
    /\ pc = "dump"
    /\ store' = JsonStore(result)
    /\ pc' = "written"
    /\ UNCHANGED <<env, conc, mounted, trigger, browser, locals, result, response,
                   raised, prevStore, enc>>

\* open or json.dump raises (OSError): the exception leaves update_json_file
WriteFail ==
    /\ pc \in {"returned", "dump"}
    /\ pc' = "write_failed"
    /\ UNCHANGED <<env, conc, mounted, store, trigger, browser, locals, result,
                   response, raised, prevStore, enc>>

\* the caller finishes: scrape_now answers success or the 500 of its except
\* branch, the other callers log or answer alike; the locals of the call die
\* (the dict of the finished call stays as garbage until the next call binds
\* a new one)
Respond ==
    /\ pc \in {"written", "write_failed", "crashed"}
    /\ response' = [to |-> trigger,
                    status |-> IF pc = "written" THEN "success" ELSE "error"]
    /\ pc' = "idle"
    /\ browser' = "none"
    /\ total_height' = 0
    /\ scroll_y' = 0
    /\ rows' = <<>>
    /\ rowIdx' = 1
    /\ result' = <<>>
    /\ mounted' = 0
    /\ enc' = <<>>
    /\ UNCHANGED <<env, conc, store, trigger, events, raised, prevStore>>

Next ==
    \/ \E t \in Triggers : Trigger(t)
    \/ Launch
    \/ Navigate
    \/ ScrollStep
    \/ ProcessRow
    \/ EndStep
    \/ LoopExit
    \/ RaiseCaught
    \/ RaiseUncaught
    \/ WriteOpen
    \/ WriteDump
    \/ WriteFail
    \/ Respond

\* ------------------------------------------------------------------------
\* Concurrency: the server threads of app.run and the thread of the
\* BackgroundScheduler run beside the call above. No lock, flag or queue of
\* app.py stands between them: they share JSON_FILE and nothing else.
\* ------------------------------------------------------------------------
\* the dict after "for row in rows" over the rows of a page of which the
\* first m elements are attached
RECURSIVE ScanRows(_, _, _, _, _)
ScanRows(d, rs, k, current_year, evs) ==
    IF k > Len(rs) THEN evs
    ELSE LET o == RowOutcome(d, rs[k], current_year, evs) IN
         ScanRows(d, rs, k + 1, current_year,
                  IF o.reason = "emit"
                  THEN DictSet(evs, o.event_id[1], o.value[1])
                  ELSE evs)

\* what a complete call of scrape_forexfactory returns when the page ends up
\* with its first m elements attached (later scroll steps skip the
\* identities stored before and repeat the other outcomes)
ScrapeResult(d, m, current_year) ==
    ListValues(ScanRows(d, QuerySelectorAll(d, m), 1, current_year, <<>>))

Triggers2 == {"cron", "scrape_now", "get_news", "download_json"}

\* another thread enters update_json_file: the scheduler's job, or a request
\* to /scrape-now, or to /api/news or /weekly_ecocar.json when
\* os.path.exists(JSON_FILE) is false
T2Start(t) ==
    /\ pc2 = "idle"
    /\ t \in {"get_news", "download_json"} => store.state = "absent"
    /\ trigger2' = t
    /\ pc2' = "scraping"
    /\ UNCHANGED <<env, mounted, store, trigger, pc, browser, locals, result,
                   response, raised, prevStore, enc, result2, readerSaw>>

\* data = scrape_forexfactory() on that thread, start to return: the events
\* of the rows it found, or [] after an exception or with no scroll step
T2Scrape ==
    /\ pc2 = "scraping"
    /\ \E m \in 0..Len(doc) : result2' = ScrapeResult(doc, m, utc_year)
    /\ pc2' = "returned"
    /\ UNCHANGED <<env, mounted, store, trigger, pc, browser, locals, result,
                   response, raised, prevStore, enc, trigger2, readerSaw>>

\* with open(JSON_FILE, 'w') as f, on that thread
T2WriteOpen ==
    /\ pc2 = "returned"
    /\ store' = TruncatedStore
    /\ pc2' = "dump"
    /\ UNCHANGED <<env, mounted, trigger, pc, browser, locals, result, response,
                   raised, prevStore, enc, trigger2, result2, readerSaw>>

\* json.dump(data, f, ...), on that thread
T2WriteDump ==
    /\ pc2 = "dump"
    /\ store' = JsonStore(result2)
    /\ pc2' = "written"
    /\ UNCHANGED <<env, mounted, trigger, pc, browser, locals, result, response,
                   raised, prevStore, enc, trigger2, result2, readerSaw>>

\* update_json_file returns on that thread and its caller answers
T2Done ==
    /\ pc2 = "written"
    /\ pc2' = "idle"
    /\ trigger2' = "none"
    /\ result2' = <<>>
    /\ UNCHANGED <<env, mounted, store, trigger, pc, browser, locals, result,
                   response, raised, prevStore, enc, readerSaw>>

\* a request to /api/news or /weekly_ecocar.json finds JSON_FILE and reads
\* it: open(JSON_FILE, 'r'); json.load(f), or send_file(JSON_FILE)
Read ==
    /\ store.state # "absent"
    /\ readerSaw' = store
    /\ UNCHANGED <<env, mounted, store, trigger, pc, browser, locals, result,
                   response, raised, prevStore, enc, pc2, trigger2, result2>>

NextConc ==
    \/ \E t \in Triggers : Trigger(t)
    \/ Launch
    \/ Navigate
    \/ ScrollStep
    \/ ProcessRow
    \/ EndStep
    \/ LoopExit
    \/ RaiseCaught
    \/ RaiseUncaught
    \/ WriteOpen
    \/ WriteDump
    \/ WriteFail
    \/ Respond
    \/ \E t \in Triggers2 : T2Start(t)
    \/ T2Scrape
    \/ T2WriteOpen
    \/ T2WriteDump
    \/ T2Done
    \/ Read

\* ------------------------------------------------------------------------
\* Upstream pages
\* ------------------------------------------------------------------------
\* time-column texts, character by character
T_2_00pm == <<"2", ":", "0", "0", "p", "m">>
T_8_30am == <<"8", ":", "3", "0", "a", "m">>
T_10_00am == <<"1", "0", ":", "0", "0", "a", "m">>
T_12_00am == <<"1", "2", ":", "0", "0", "a", "m">>
T_12_30pm == <<"1", "2", ":", "3", "0", "p", "m">>
T_3_00am == <<"3", ":", "0", "0", "a", "m">>
T_6_59am == <<"6", ":", "5", "9", "a", "m">>
T_7_00am == <<"7", ":", "0", "0", "a", "m">>
T_11_59pm == <<"1", "1", ":", "5", "9", "p", "m">>
T_08_30AM == <<"0", "8", ":", "3", "0", "A", "M">>
T_8_30_am == <<"8", ":", "3", "0", " ", "a", "m">>
T_13_30pm == <<"1", "3", ":", "3", "0", "p", "m">>
T_0_30am == <<"0", ":", "3", "0", "a", "m">>
T_8_75am == <<"8", ":", "7", "5", "a", "m">>
T_AllDay == <<"A", "l", "l", " ", "D", "a", "y">>
T_Tentative == <<"T", "e", "n", "t", "a", "t", "i", "v", "e">>
T_Noise == <<"D", "a", "y", " ", "4", ":", "1", "5", "p", "m">>
T_Glued == <<"a", "8", ":", "3", "0", "a", "m">>
T_Empty == <<>>

TimeTexts == {T_2_00pm, T_8_30am, T_10_00am, T_12_00am, T_12_30pm, T_3_00am, T_6_59am, T_7_00am, T_11_59pm, T_08_30AM, T_8_30_am, T_13_30pm, T_0_30am, T_8_75am, T_AllDay, T_Tentative, T_Noise, T_Glued, T_Empty}

\* date-header texts, word by word
D_TueMar05 == <<"Tue", "\n", "Mar", " ", "05">>
D_MonMar04 == <<"Mon", " ", "Mar", " ", "04">>
D_MonJan15 == <<"Mon", " ", "Jan", " ", "15">>
D_MonJan1 == <<"Mon", "\n", "Jan", " ", "1">>
D_FriMar1 == <<"Fri", " ", "Mar", " ", "1">>
D_ThuFeb29 == <<"Thu", " ", "Feb", " ", "29">>
D_WedMay1 == <<"Wed", " ", "May", " ", "1">>
D_TueDec31 == <<"Tue", " ", "Dec", " ", "31">>
D_NoWeekday == <<"Mar", " ", "05">>
D_Glued == <<"Tue", "Mar", " ", "05">>
D_Empty == <<>>

DateTexts == {D_TueMar05, D_MonMar04, D_MonJan15, D_MonJan1, D_FriMar1,
              D_ThuFeb29, D_WedMay1, D_TueDec31, D_NoWeekday, D_Glued, D_Empty}

Years == {2023, 2024}

El(first, row, id, date, time, currency, impact, title) ==
    [first |-> first, row |-> row, id |-> id, date |-> date, time |-> time,
     currency |-> currency, impact |-> impact, title |-> title]

\* the first row of a day: it carries the date and the time of its group
E_Head == El(FALSE, TRUE, <<"e1">>, <<D_TueMar05>>, <<T_2_00pm>>,
             <<<<" ", "USD", " ">>>>, <<HIGH_IMPACT_TITLE>>, <<<<" ", "CPI", " ">>>>)
\* a row of a group: no header of its own
E_Plain == El(FALSE, TRUE, <<"e2">>, <<>>, <<>>,
              <<<<"EUR">>>>, <<HIGH_IMPACT_TITLE>>, <<>>)
\* a second row with the identity of E_Head and other content
E_Dup == El(FALSE, TRUE, <<"e1">>, <<>>, <<T_8_30am>>,
            <<<<"GBP">>>>, <<HIGH_IMPACT_TITLE>>, <<<<"Rate">>>>)
\* a row with the identity of E_Plain and a currency outside the target set
E_Jpy == El(FALSE, TRUE, <<"e2">>, <<>>, <<>>,
            <<<<"JPY">>>>, <<HIGH_IMPACT_TITLE>>, <<<<"BoJ">>>>)
\* a row without identity that opens a day of all-day entries
E_AllDay == El(FALSE, TRUE, <<>>, <<D_MonMar04>>, <<T_AllDay>>,
               <<>>, <<>>, <<<<"Holiday">>>>)
\* a low-impact row that opens a time group
E_Low == El(FALSE, TRUE, <<"e3">>, <<>>, <<T_10_00am>>,
            <<<<"USD">>>>, <<"Low Impact Expected">>, <<<<"PMI">>>>)
\* a row that is the first child of a new parent
E_New == El(TRUE, TRUE, <<"e3">>, <<>>, <<>>,
            <<<<"AUD">>>>, <<HIGH_IMPACT_TITLE>>, <<<<"RBA">>>>)

ElementPool == {E_Head, E_Plain, E_Dup, E_Jpy, E_AllDay, E_Low, E_New}

\* the first element of a document has no previous sibling
AsDocument(d) == [i \in 1..Len(d) |-> IF i = 1 THEN [d[i] EXCEPT !.first = TRUE] ELSE d[i]]

SeqsUpTo(S, n) == UNION {[1..k -> S] : k \in 1..n}

\* pages of up to MaxRows elements of the pool
PoolDocs == {AsDocument(d) : d \in SeqsUpTo(ElementPool, MaxRows)}

\* one-row pages over every date and time text
ClockDocs ==
    {AsDocument(<<El(TRUE, TRUE, <<"e1">>, <<d>>, <<t>>, <<<<"NZD">>>>,
                    <<HIGH_IMPACT_TITLE>>, <<>>)>>) : d \in DateTexts, t \in TimeTexts}

\* a header row followed by one row over every identity, currency, impact
\* and title
IdValues == {<<>>, <<"">>, <<"e2">>}
CurrencyValues == {<<>>, <<<<"AUD">>>>, <<<<"\n", "NZD", " ">>>>, <<<<"CAD">>>>,
                   <<<<"USD", " ", "EUR">>>>, <<<<>>>>}
ImpactValues == {<<>>, <<HIGH_IMPACT_TITLE>>, <<"Medium Impact Expected">>,
                 <<"Non-Economic">>}
TitleValues == {<<>>, <<<<>>>>, <<<<" ", "Non-Farm", " ", "Payrolls", "\n">>>>}

FieldDocs ==
    {AsDocument(<<E_Head, El(FALSE, r, i, <<>>, <<>>, c, m, t)>>) :
        r \in BOOLEAN, i \in IdValues, c \in CurrencyValues,
        m \in ImpactValues, t \in TitleValues}

\* the pages, clock years and callers of the calls of scrape_forexfactory
ScrapeInputs ==
    {[doc |-> d, year |-> 2024, caller |-> "cron"] : d \in PoolDocs}
    \cup {[doc |-> d, year |-> 2024, caller |-> c] :
              d \in FieldDocs, c \in {"cron", "news_main"}}
    \cup {[doc |-> d, year |-> y, caller |-> c] :
              d \in ClockDocs, y \in Years, c \in {"cron", "news_main"}}

\* a snapshot left in JSON_FILE by an earlier process
PriorSnapshot ==
    << [event_time_utc |-> [year |-> 2024, month |-> 2, day |-> 27, hour |-> 13,
                            minute |-> 30, second |-> 0, offset |-> "+00:00"],
        currency |-> <<"USD">>, impact |-> "HIGH", event |-> <<"GDP">>] >>

ServiceDocs == {AsDocument(d) : d \in SeqsUpTo({E_Head, E_Plain, E_Jpy}, 2)}

\* ------------------------------------------------------------------------
\* Specifications
\* ------------------------------------------------------------------------
InitLocals ==
    /\ mounted = 0
    /\ browser = "none"
    /\ events = <<>>
    /\ total_height = 0
    /\ scroll_y = 0
    /\ rows = <<>>
    /\ rowIdx = 1
    /\ result = <<>>
    /\ response = NoResponse
    /\ raised = FALSE
    /\ enc = <<>>
    /\ pc2 = "idle"
    /\ trigger2 = "none"
    /\ result2 = <<>>
    /\ readerSaw = [state |-> "none", data |-> <<>>]

\* the service of app.py (and the script of news.py beside it) at rest
Init ==
    /\ doc \in ServiceDocs
    /\ utc_year = 2024
    /\ store \in {AbsentStore, JsonStore(PriorSnapshot)}
    /\ prevStore = store
    /\ trigger = "none"
    /\ pc = "idle"
    /\ InitLocals

Spec == Init /\ [][Next]_vars

\* one call of scrape_forexfactory, from update_json_file or from the
\* __main__ block of news.py
InitScrape ==
    /\ \E in \in ScrapeInputs :
          doc = in.doc /\ utc_year = in.year /\ trigger = in.caller
    /\ store = AbsentStore
    /\ prevStore = store
    /\ pc = "start"
    /\ InitLocals

SpecScrape == InitScrape /\ [][NextScrape]_vars

\* "for row in rows" has a row left to read: the enabling condition of
\* ProcessRow
RowPending == pc = "rows" /\ rowIdx <= Len(rows)

\* the statements of scrape_forexfactory around the row loop
RunStep ==
    \/ Launch
    \/ Navigate
    \/ ScrollStep
    \/ EndStep
    \/ LoopExit

\* the page of the service with its threads: one row that yields an event
ConcDocs == {AsDocument(<<E_Head>>)}

\* the service at rest, with the scheduler started and the server threads
\* waiting for requests
InitConc ==
    /\ doc \in ConcDocs
    /\ utc_year = 2024
    /\ store \in {AbsentStore, JsonStore(PriorSnapshot)}
    /\ prevStore = store
    /\ trigger = "none"
    /\ pc = "idle"
    /\ InitLocals

SpecConc == InitConc /\ [][NextConc]_vars

\* the service with a thread that keeps executing the statements of
\* scrape_forexfactory: a step that stays enabled is taken; nothing obliges
\* a trigger or an exception to happen. The second conjunct of the fairness
\* is WF_vars(ProcessRow) with ENABLED <<ProcessRow>>_vars written out as
\* RowPending.
FairSpec ==
    /\ Init
    /\ [][Next]_vars
    /\ WF_vars(RunStep)
    /\ ([]<>(~RowPending) \/ []<><<ProcessRow>>_vars)

\* ------------------------------------------------------------------------
\* Properties
\* ------------------------------------------------------------------------
EncIdx == 1..Len(enc)
EvIdx == 1..Len(events)

\* the iterations of this run that read identity k
EncountersOf(k) == {j \in EncIdx : enc[j].event_id = <<k>>}

\* C1: a failed run never corrupts or truncates a previously successful
\* snapshot: while and after update_json_file handles a run in which an
\* exception was raised, the store still holds the snapshot it held when the
\* run was triggered.
C1_FailedRunKeepsSnapshot ==
    (raised /\ prevStore.state = "json") => store = prevStore

\* C2 as stated: every stored event is derived from the first row of the run
\* that carried its identity, and no later row with that identity yields an
\* event, also when that first row was rejected.
C2_FirstEncounteredWins ==
    \A i \in EvIdx :
        LET js    == EncountersOf(events[i].key)
            first == CHOOSE j \in js : \A o \in js : j <= o
        IN  /\ enc[first].reason = "emit"
            /\ enc[first].value = <<events[i].value>>
            /\ \A j \in js : j > first => enc[j].reason # "emit"

\* C2 amended: every stored event is derived from the first row of the run
\* with its identity that passed every step; the rows with that identity
\* before it were rejected, and every row with that identity after it is
\* skipped as already stored.
C2_FirstAcceptedWins ==
    \A i \in EvIdx :
        LET js == EncountersOf(events[i].key)
            es == {j \in js : enc[j].reason = "emit"}
        IN  /\ Cardinality(es) = 1
            /\ \A e \in es :
                  /\ enc[e].value = <<events[i].value>>
                  /\ \A j \in js : j < e => enc[j].reason \notin {"emit", "stored"}
                  /\ \A j \in js : j > e => enc[j].reason = "stored"

\* an identity whose first row was rejected, a later row of which was stored
\* and a still later row of which was skipped
C2_Witness ==
    \E i \in EvIdx : \E a, b, c \in EncountersOf(events[i].key) :
        /\ a < b /\ b < c
        /\ enc[a].reason \notin {"emit", "stored"}
        /\ enc[b].reason = "emit"
        /\ enc[c].reason = "stored"

\* C3: at every point of a run the result collection holds at most one event
\* per identity, every key is a non-empty identity read from a row of this
\* run, and a stored event is never overwritten or moved by a later row.
C3_KeysUniqueAndRead ==
    /\ \A i, j \in EvIdx : events[i].key = events[j].key => i = j
    /\ \A i \in EvIdx : events[i].key # "" /\ EncountersOf(events[i].key) # {}

\* (the dict dies with the call when an exception ends the run)
C3_StoredNeverOverwritten ==
    raised' = raised =>
        \A i \in EvIdx : Len(events') >= i /\ events'[i] = events[i]

C3_ResultCollection ==
    [](C3_KeysUniqueAndRead) /\ [][C3_StoredNeverOverwritten]_vars

\* a second row with a stored identity and other content has been skipped
C3_Witness ==
    \E j \in EncIdx :
        /\ enc[j].reason = "stored"
        /\ doc[enc[j].pos].currency # doc[enc[CHOOSE e \in EncountersOf(enc[j].event_id[1]) :
                                            enc[e].reason = "emit"].pos].currency

\* C4: no caller is told of success for a run in which a fatal failure
\* occurred: scrape_forexfactory does not return normally after an exception
\* and /scrape-now does not answer success for such a run.
C4_FatalFailureReported ==
    raised => ~(response.to = "scrape_now" /\ response.status = "success")

\* the nearest position at or before pos, in document order, of an element
\* that has the header sub-element (0 when there is none)
NearestDatePos(pos) ==
    LET ks == {k \in 1..pos : doc[k].date # <<>>} IN
    IF ks = {} THEN 0 ELSE CHOOSE k \in ks : \A o \in ks : o <= k

NearestTimePos(pos) ==
    LET ks == {k \in 1..pos : doc[k].time # <<>>} IN
    IF ks = {} THEN 0 ELSE CHOOSE k \in ks : \A o \in ks : o <= k

\* the elements after k up to pos are siblings of k
SameLevel(k, pos) == \A m \in (k + 1)..pos : ~doc[m].first

\* C5: the date text and the time text used for a row are those of the
\* nearest element at or before the row, in document order, that has the
\* date header, respectively the time-column value; a row without own
\* header inherits from the nearest preceding header of its sibling list and
\* never from an earlier or a later one.
C5_HeaderInheritance ==
    \A j \in EncIdx :
        LET p  == enc[j].pos
            kd == NearestDatePos(p)
            kt == NearestTimePos(p)
        IN  /\ enc[j].date_text # <<>> => (kd > 0 /\ enc[j].date_text = doc[kd].date)
            /\ enc[j].time_text # <<>> => (kt > 0 /\ enc[j].time_text = doc[kt].time)
            /\ (enc[j].reason \notin {"no_id", "stored"} /\ kd > 0 /\ SameLevel(kd, p))
                  => enc[j].date_text = doc[kd].date
            /\ (enc[j].reason \notin {"no_id", "stored", "no_date", "bad_date"}
                /\ kt > 0 /\ SameLevel(kt, p))
                  => enc[j].time_text = doc[kt].time

\* a row without own headers was emitted with the date of the nearest
\* preceding date header, which is not the first date header of the page
C5_Witness ==
    \E j \in EncIdx :
        LET p == enc[j].pos IN
        /\ enc[j].reason = "emit"
        /\ doc[p].date = <<>> /\ doc[p].time = <<>>
        /\ \E k \in 1..(NearestDatePos(p) - 1) :
              doc[k].date # <<>> /\ doc[k].date # doc[NearestDatePos(p)].date

\* days from 0001-01-01 to the given civil date
DayOrdinal(y, m, d) ==
    LET RECURSIVE Before(_)
        Before(k) == IF k = 0 THEN 0 ELSE DaysInMonth(y, k) + Before(k - 1)
    IN 365 * (y - 1) + ((y - 1) \div 4) - ((y - 1) \div 100) + ((y - 1) \div 400)
       + Before(m - 1) + d

AbsMinutes(y, m, d, h, mi) == (DayOrdinal(y, m, d) * 60 * 24) + h * 60 + mi

\* the 12-hour clock reading of a matched time string
ClockOf(ts) ==
    LET c  == CHOOSE i \in 1..Len(ts) : ts[i] = ":"
        h  == IF c = 3 THEN 10 * DigitVal(ts[1]) + DigitVal(ts[2]) ELSE DigitVal(ts[1])
        pm == \E i \in 1..Len(ts) : ts[i] \in {"p", "P"}
    IN [hour |-> (IF h = 12 THEN 0 ELSE h) + (IF pm THEN 12 ELSE 0),
        minute |-> 10 * DigitVal(ts[c + 1]) + DigitVal(ts[c + 2])]

\* C6: the event time of every emitted event is the instant of the resolved
\* header date, in the current UTC year, at the matched 12-hour clock time
\* in UTC+7, expressed in UTC: seven hours earlier on the time line, with
\* 12am = 00 and 12pm = 12 and with the day, month and year rolled back when
\* the subtraction crosses midnight; "Mon Jan 15" "8:30am" gives 01:30 UTC
\* on Jan 15.
C6_TimeConversion ==
    \A j \in EncIdx : enc[j].reason = "emit" =>
        LET d == enc[j].date[1]
            c == ClockOf(enc[j].time_str[1])
            u == enc[j].value[1].event_time_utc
            w == WordsOf(enc[j].date_text[1])
        IN  /\ d.year = utc_year
            /\ w[2] = MonthNames[d.month]
            /\ w[3] \in {DayTokens[d.day]} \cup
                         (IF d.day < 10 THEN {PaddedDayTokens[d.day]} ELSE {})
            /\ u.hour \in 0..23 /\ u.minute \in 0..59 /\ u.second = 0
            /\ u.month \in 1..12 /\ u.day \in 1..DaysInMonth(u.year, u.month)
            /\ u.offset = "+00:00"
            /\ AbsMinutes(u.year, u.month, u.day, u.hour, u.minute)
                   = AbsMinutes(d.year, d.month, d.day, c.hour, c.minute) - 7 * 60
            /\ (enc[j].date_text = <<D_MonJan15>> /\ enc[j].time_text = <<T_8_30am>>)
                  => (u.year = utc_year /\ u.month = 1 /\ u.day = 15
                      /\ u.hour = 1 /\ u.minute = 30)

\* an event before 7am on Jan 1 was emitted: its UTC time is in the
\* previous year
C6_Witness ==
    \E j \in EncIdx :
        /\ enc[j].reason = "emit"
        /\ enc[j].value[1].event_time_utc.year = utc_year - 1

\* txt has an H:MM am/pm reading at i: nd digits, a colon, two digits, k
\* whitespace characters, am or pm, between word boundaries
ClockShapeAt(txt, i, nd, k) ==
    LET c == i + nd IN
    /\ c + 4 + k <= Len(txt)
    /\ \A x \in i..(c - 1) : txt[x] \in Digits
    /\ txt[c] = ":"
    /\ txt[c + 1] \in Digits /\ txt[c + 2] \in Digits
    /\ \A x \in (c + 3)..(c + 2 + k) : txt[x] \in Whitespace
    /\ txt[c + 3 + k] \in {"a", "A", "p", "P"}
    /\ txt[c + 4 + k] \in {"m", "M"}
    /\ (i > 1 => ~IsWordChar(txt[i - 1]))
    /\ (c + 4 + k < Len(txt) => ~IsWordChar(txt[c + 5 + k]))

HasClock(txt) ==
    \E i \in 1..Len(txt) : \E nd \in 1..2 : \E k \in 0..Len(txt) :
        ClockShapeAt(txt, i, nd, k)

\* C7: a row whose resolved time text has no H:MM am/pm reading ("All Day",
\* "Tentative") yields no event, the run does not abort on it, and the loop
\* goes on with the next row.
C7_NoClockNoEvent ==
    \A j \in EncIdx :
        /\ (enc[j].time_text # <<>> /\ ~HasClock(enc[j].time_text[1]))
              => (enc[j].reason \in {"no_time", "no_match"} /\ enc[j].value = <<>>)
        /\ enc[j].time_text \in {<<T_AllDay>>, <<T_Tentative>>}
              => enc[j].reason = "no_match"

C7_RunGoesOn ==
    (Len(enc') = Len(enc) + 1 /\ enc'[Len(enc')].reason = "no_match")
        => /\ events' = events
           /\ pc' = "rows" /\ rowIdx' = rowIdx + 1
           /\ raised' = raised

C7_MalformedTimeRejected ==
    [](C7_NoClockNoEvent) /\ [][C7_RunGoesOn]_vars

\* a row was rejected for its time text and a row after it, in a later
\* scroll step, was emitted
C7_Witness ==
    \E a, b \in EncIdx :
        /\ a < b
        /\ enc[a].reason = "no_match" /\ enc[a].time_text = <<T_AllDay>>
        /\ enc[b].reason = "emit" /\ enc[b].step > enc[a].step
        /\ ~raised

\* C8: every event of the result collection has a currency of
\* {USD, EUR, GBP, AUD, NZD}, and a row whose currency field is absent or
\* outside that set has not produced an event.
C8_CurrencyFilter ==
    /\ \A i \in EvIdx :
          events[i].value.currency \in
              {<<"USD">>, <<"EUR">>, <<"GBP">>, <<"AUD">>, <<"NZD">>}
    /\ \A j \in EncIdx : enc[j].reason = "emit" =>
          /\ doc[enc[j].pos].currency # <<>>
          /\ \E w \in {"USD", "EUR", "GBP", "AUD", "NZD"} :
                /\ WordsOf(doc[enc[j].pos].currency[1]) = <<w>>
                /\ enc[j].value[1].currency = <<w>>

\* a row with a currency outside the set was rejected, again on a later
\* scroll step, and another row was stored
C8_Witness ==
    /\ events # <<>>
    /\ \E j \in EncIdx : enc[j].reason = "currency" /\ enc[j].step > 0

\* C9: every emitted event has impact "HIGH", and a row without the
\* high-impact marker (marked medium or low, or unmarked) has not produced
\* an event, on any scroll step.
C9_ImpactFilter ==
    /\ \A i \in EvIdx : events[i].value.impact = "HIGH"
    /\ \A j \in EncIdx : enc[j].reason = "emit" =>
          /\ enc[j].value[1].impact = "HIGH"
          /\ doc[enc[j].pos].impact = <<"High Impact Expected">>

\* a row marked otherwise was rejected on a later scroll step and another
\* row was stored
C9_Witness ==
    /\ events # <<>>
    /\ \E j \in EncIdx :
          /\ enc[j].reason = "impact" /\ enc[j].step > 0
          /\ doc[enc[j].pos].impact # <<>>

\* the iterations that emitted, in the order in which they ran
EmitSeq == SelectSeq(enc, LAMBDA o : o.reason = "emit")

\* C10: the result collection, and the returned sequence, list the events in
\* the order in which they were first stored during traversal (scroll step
\* order, then document order within a step), whatever their event times.
C10_InsertionOrder ==
    /\ \A a, b \in EncIdx : a < b =>
          \/ enc[a].step < enc[b].step
          \/ (enc[a].step = enc[b].step /\ enc[a].pos < enc[b].pos)
    /\ Len(events) = Len(EmitSeq)
    /\ \A i \in EvIdx :
          /\ events[i].key = EmitSeq[i].event_id[1]
          /\ events[i].value = EmitSeq[i].value[1]
    /\ (pc = "returned" /\ ~raised) =>
          /\ Len(result) = Len(EmitSeq)
          /\ \A i \in 1..Len(result) : result[i] = EmitSeq[i].value[1]

\* a run returned two events, stored on different scroll steps, the first
\* of which is later in time than the second
C10_Witness ==
    /\ pc = "returned" /\ ~raised
    /\ Len(result) >= 2
    /\ EmitSeq[1].step < EmitSeq[2].step
    /\ LET a == result[1].event_time_utc
           b == result[2].event_time_utc
       IN AbsMinutes(a.year, a.month, a.day, a.hour, a.minute)
              > AbsMinutes(b.year, b.month, b.day, b.hour, b.minute)

\* C11: the result collection is empty when a run starts, and every event of
\* a run's collection and of its returned result was emitted by a row
\* iteration of that same run, whatever earlier runs produced.
C11_RunIsolation ==
    /\ pc = "goto" => (events = <<>> /\ enc = <<>>)
    /\ (pc \in {"goto", "loop", "rows"} \/ (pc = "returned" /\ ~raised)) =>
          \A i \in EvIdx : \E j \in EncIdx :
              /\ enc[j].reason = "emit"
              /\ enc[j].event_id = <<events[i].key>>
              /\ enc[j].value = <<events[i].value>>
    /\ (pc = "returned" /\ ~raised) =>
          \A i \in 1..Len(result) : \E j \in EncIdx :
              enc[j].reason = "emit" /\ enc[j].value = <<result[i]>>

\* a run returned fewer events than an earlier run of the process had
\* written to the store
C11_Witness ==
    /\ pc = "returned" /\ ~raised
    /\ store.state = "json" /\ store.data # PriorSnapshot
    /\ Len(store.data) > Len(result)

\* C12: in every terminal state of a run, after a normal completion or after
\* a failure at any point, the rendering session is not open: a session that
\* was started has been closed.
C12_SessionReleased ==
    /\ pc \in {"returned", "crashed", "dump", "written", "write_failed", "idle"}
          => browser # "open"
    /\ browser = "open" => pc \in {"goto", "loop", "rows"}

\* a run failed after its session was started, and the session is closed
C12_Witness == pc = "returned" /\ raised /\ browser = "closed"

\* the step of the scroll loop is at its scroll, its row query or a row read
InStepRead ==
    \/ pc = "loop" /\ scroll_y < total_height
    \/ pc = "rows" /\ rowIdx <= Len(rows)

\* C15: a failure of one scroll step's scroll, row query or row read does
\* not abort the run: the loop goes on and the events stored so far are kept.
C15_StepFailureSkipped ==
    (InStepRead /\ ~raised /\ raised')
        => (pc' \in {"loop", "rows"} /\ events' = events)

C15_PartialScrollFailure == [][C15_StepFailureSkipped]_vars

\* C16 as stated: a row is skipped for a missing date header only if no
\* element anywhere above it in the document has one.
C16_AncestorLevelSearch ==
    \A j \in EncIdx :
        (enc[j].reason = "no_date" /\ enc[j].date_text = <<>>)
            => NearestDatePos(enc[j].pos) = 0

\* the positions at or before pos, at the level of pos, that have the date
\* header
LevelDatePositions(pos) ==
    {k \in 1..pos : doc[k].date # <<>> /\ SameLevel(k, pos)}

\* C16 amended: the date-header resolution searches the row and its
\* preceding siblings at the row's own level and nothing else: the row gets
\* the header of the nearest of them, and is skipped for a missing date
\* header exactly when none of them has one, whatever the elements above
\* that level contain.
C16_OwnLevelSearch ==
    \A j \in EncIdx : enc[j].reason \notin {"no_id", "stored"} =>
        LET S == LevelDatePositions(enc[j].pos) IN
        /\ S = {} <=> enc[j].date_text = <<>>
        /\ S = {} => enc[j].reason = "no_date"
        /\ S # {} => \E k \in S : /\ \A o \in S : o <= k
                                  /\ enc[j].date_text = doc[k].date

\* a row was skipped for a missing date header although an element above it
\* in the document has one
C16_Witness ==
    \E j \in EncIdx :
        /\ enc[j].reason = "no_date" /\ enc[j].date_text = <<>>
        /\ NearestDatePos(enc[j].pos) > 0

\* the matched time string reads an hour of 1..12 and a minute of 0..59
ValidClock12(ts) ==
    LET c == CHOOSE i \in 1..Len(ts) : ts[i] = ":"
        h == IF c = 3 THEN 10 * DigitVal(ts[1]) + DigitVal(ts[2]) ELSE DigitVal(ts[1])
        mi == 10 * DigitVal(ts[c + 1]) + DigitVal(ts[c + 2])
    IN h \in 1..12 /\ mi \in 0..59

\* C18: a row that passes the identity, date, currency and impact checks and
\* whose time text matches the pattern with a valid 12-hour value yields an
\* event, also when whitespace stands between the minutes and am/pm
\* ("8:30 am").
C18_MatchedTimeParsed ==
    \A j \in EncIdx :
        (enc[j].reason \in {"bad_clock", "emit"} /\ ValidClock12(enc[j].time_str[1]))
            => enc[j].reason = "emit"

\* one step of the traversal: the offset starts at 0, changes only at the
\* end of a step and then by exactly 100; from the loop test the run enters
\* a step exactly when the offset is below the height read last, and leaves
\* the loop exactly when it is not
C17_TraversalStep ==
    /\ (pc = "goto" /\ pc' = "loop") => scroll_y' = 0
    /\ (pc = "rows" /\ pc' = "loop") => scroll_y' = scroll_y + 100
    /\ (pc \in {"loop", "rows"} /\ raised' = raised /\ scroll_y' # scroll_y)
          => (pc = "rows" /\ pc' = "loop")
    /\ (pc \in {"loop", "rows"} /\ raised' = raised /\ total_height' # total_height)
          => (pc = "rows" /\ pc' = "loop")
    /\ (pc = "loop" /\ raised' = raised /\ pc' # pc)
          => \/ scroll_y < total_height /\ pc' = "rows" /\ scroll_y' = scroll_y
             \/ scroll_y >= total_height /\ pc' = "returned"

\* C17: the scroll offset starts at 0 and increases by exactly 100 after
\* each step, a step is performed at every offset strictly below the height
\* read last and the loop exits exactly when the offset is greater than or
\* equal to it; with a height that stops growing, every run that was started
\* eventually ends.
C17_ScrollTraversal ==
    /\ [][C17_TraversalStep]_vars
    /\ (pc = "start") ~> (pc \in {"returned", "crashed"})

\* a run went through the offsets 0 and 100 of a page whose height grew to
\* 200 and left the loop at offset 200
C17_Witness ==
    /\ pc = "returned" /\ ~raised
    /\ scroll_y = 200 /\ total_height = 200
    /\ \E j \in EncIdx : enc[j].step = 100

\* C13: a reader of JSON_FILE at any point of a run's write finds a complete
\* snapshot, the previous one or the new one, never an empty or partly
\* written file.
C13_AtomicReplacement == readerSaw.state # "empty"

\* C14: at most one pipeline run executes at a time: the runs of the
\* scheduler, of /scrape-now and of a first access never overlap.
C14_RunsSerialized == ~(pc # "idle" /\ pc2 # "idle")

====
